---- MODULE Spec2Model ----
(***************************************************************************)
(* Input-conditioning pipeline of the StereoOdometry nodelet               *)
(* (src/nodelets/stereo_odometry.cpp): the pause gate, the encoding check, *)
(* the body-frame lookup, the stereo geometry resolution with its fallback *)
(* baseline, the one-shot diagnostics, the image conversion targets and    *)
(* the dispatch to the estimator (processData), for the four-stream        *)
(* callback and for the composite (RGBD) callback.                         *)
(*                                                                         *)
(* Lengths are integers (one unit = one metre); a timestamp is a positive  *)
(* integer.                                                                *)
(***************************************************************************)
EXTENDS Integers, FiniteSets, Sequences, TLC

(***************************************************************************)
(* Bounds of the model.                                                    *)
(***************************************************************************)
\* image timestamps are drawn from 1..MaxStamp
MaxStamp == 2
\* the emission counters of the one-shot diagnostics saturate at MaxEmit
MaxEmit == 2
\* number of threads that may run the frame callback concurrently (SpecConc)
NumThreads == 2
\* the stamps of the messages delivered to a synchronizer are 1..MaxArrive
MaxArrive == 3
\* the values of queue_size the synchronizers of the streams are built with
QueueSizes == {1, 2}

(***************************************************************************)
(* Program constants.                                                      *)
(***************************************************************************)
\* queueSize_(5) in the constructor
DefaultQueueSize == 5
\* if(stereoModel.baseline() > 10.0)
LargeBaseline == 10

\* sensor_msgs::image_encodings
TYPE_8UC1 == "8UC1"
MONO8 == "mono8"
MONO16 == "mono16"
BGR8 == "bgr8"
RGB8 == "rgb8"
BGRA8 == "bgra8"
RGBA8 == "rgba8"
\* an encoding none of the comparisons of the callbacks matches
TYPE_16UC1 == "16UC1"

Encodings == {TYPE_8UC1, MONO8, MONO16, BGR8, RGB8, BGRA8, RGBA8, TYPE_16UC1}

(***************************************************************************)
(* rtabmap::Transform: a null transform, or a transform with its           *)
(* translation along x; isIdentity() is true of the identity alone.        *)
(***************************************************************************)
NullTransform == [null |-> TRUE, identity |-> FALSE, x |-> 0]
IdentityTransform == [null |-> FALSE, identity |-> TRUE, x |-> 0]
Translation(tx) == [null |-> FALSE, identity |-> FALSE, x |-> tx]

isNull(T) == T.null
isIdentity(T) == T.identity

(***************************************************************************)
(* The left camera descriptor (sensor_msgs::CameraInfo of the left         *)
(* camera): intrinsics and image size.                                     *)
(***************************************************************************)
LeftInfoA == [fx |-> 4, fy |-> 5, cx |-> 3, cy |-> 2, imageSize |-> 8]
LeftInfoB == [fx |-> 6, fy |-> 7, cx |-> 4, cy |-> 3, imageSize |-> 9]

(***************************************************************************)
(* One correlated tuple together with what the transform provider answers  *)
(* for it.  baseline is the baseline the right descriptor yields           *)
(* (-Tx/fx); tfLocal, tfStereo and tfFallback are the answers of           *)
(* getTransform for the body-frame lookup, the right->left calibration     *)
(* lookup and the left->right fallback lookup.                             *)
(***************************************************************************)
Nominal ==
    [encL |-> MONO8, encR |-> MONO8,
     stampL |-> 1, stampR |-> 1,
     emptyL |-> FALSE, emptyR |-> FALSE,
     left |-> LeftInfoA,
     baseline |-> 1,
     tfLocal |-> Translation(1),
     tfStereo |-> Translation(-1),
     tfFallback |-> Translation(2)]

\* the values each field of a tuple is drawn from
Domain(f) ==
    CASE f = "encL" -> Encodings
      [] f = "encR" -> Encodings
      [] f = "stampL" -> 1..MaxStamp
      [] f = "stampR" -> 1..MaxStamp
      [] f = "emptyL" -> BOOLEAN
      [] f = "emptyR" -> BOOLEAN
      [] f = "left" -> {LeftInfoA, LeftInfoB}
      [] f = "baseline" -> {-1, 0, 1, LargeBaseline + 1}
      [] f = "tfLocal" -> {NullTransform, Translation(1), Translation(3)}
      [] f = "tfStereo" -> {NullTransform, IdentityTransform, Translation(-1)}
      [] f = "tfFallback" -> {NullTransform, Translation(-2), Translation(2),
                              Translation(LargeBaseline + 2)}

Fields == DOMAIN Nominal

\* the tuples that differ from Nominal in the field f alone, or not at all
Vary(S, f) == UNION {{[m EXCEPT ![f] = v] : v \in Domain(f)} : m \in S}

\* every tuple that differs from the nominal one in at most two fields
Pairs == UNION {Vary(Vary({Nominal}, f), g) : <<f, g>> \in Fields \X Fields}

\* the tuple has the nominal value in every field but the two encodings
EncodingsOnly(m) == [m EXCEPT !.encL = Nominal.encL, !.encR = Nominal.encR] = Nominal

\* The tuples the callbacks are given: each pair of fields other than the
\* encodings takes each pair of its values, the two encodings take each pair
\* of encodings, and the unsupported encoding meets each value of each other
\* field.
Inputs ==
    {m \in Pairs :
        \/ m.encL = Nominal.encL /\ m.encR = Nominal.encR
        \/ EncodingsOnly(m)
        \/ m.encL = TYPE_16UC1
        \/ m.encR = TYPE_16UC1}

(***************************************************************************)
(* State.                                                                  *)
(***************************************************************************)
VARIABLES
    paused,            \* the pause gate read by isPaused()
    subscribeRGBD,     \* subscribe_rgbd: the composite stream is subscribed
    approxSync_,       \* the approximate-time synchronizer, or NULL
    exactSync_,        \* the exact-time synchronizer, or NULL
    queueSize_,        \* queue_size
    keepColor_,        \* keep_color
    alreadyRectified,  \* parameter Rtabmap/ImagesAlreadyRectified
    warned,            \* static bool warned, one per callback function
    shown,             \* static bool shown, one per callback function
    emitted,           \* how often each one-shot diagnostic was printed
    callbackCalled_,   \* the mark callbackCalled() leaves in the base class
    arrived,           \* per stream, the stamp of the last message delivered
    flushed,           \* per stream, what arrived was at the last flushCallbacks
    signal,            \* the last tuple a synchronizer has signalled
    signalled,         \* how many tuples the synchronizers have signalled
    last,              \* what the last operation was given and what it did
    thr                \* the threads inside the frame callback (SpecConc)

vars == <<paused, subscribeRGBD, approxSync_, exactSync_, queueSize_, keepColor_,
          alreadyRectified, warned, shown, emitted, callbackCalled_,
          arrived, flushed, signal, signalled, last, thr>>

config == <<subscribeRGBD, queueSize_, keepColor_, alreadyRectified>>

Functions == {"callback", "callbackRGBD"}
OneShot == {"FallbackBaselineUsed", "LargeBaseline"}
Threads == 1..NumThreads

Min(a, b) == IF a < b THEN a ELSE b

\* the time-delta within which the approximate policy correlates
MaxInterval == 1

\* the four subscribers a synchronizer is connected to
Streams == {"imageRectLeft", "imageRectRight", "cameraInfoLeft", "cameraInfoRight"}

\* no message delivered on any stream, and no tuple signalled
NoStamps == [s \in Streams |-> 0]

\* pending state with nothing in it: per stream, the stamps of the messages held
NoPending == [s \in Streams |-> {}]

\* a null synchronizer pointer, and a synchronizer as the constructor leaves it
NULL == [alive |-> FALSE, policy |-> "none", queue_size |-> 0, pending |-> NoPending]
Synchronizer(policy, size) ==
    [alive |-> TRUE, policy |-> policy, queue_size |-> size, pending |-> NoPending]

(***************************************************************************)
(* The two policies of message_filters::Synchronizer.  The messages of a   *)
(* stream arrive with growing stamps, so the pending messages of a stream  *)
(* are a set of stamps and the oldest is the smallest.                     *)
(***************************************************************************)
Oldest(q) == CHOOSE t \in q : \A u \in q : t <= u
Newest(q) == CHOOSE t \in q : \A u \in q : t >= u

\* the message t is queued on stream s; beyond size the oldest is dropped
Push(pending, s, t, size) ==
    LET q == pending[s] \cup {t}
    IN [pending EXCEPT ![s] = IF Cardinality(q) > size THEN q \ {Oldest(q)} ELSE q]

\* the matched entries kept in pending state after the tuple is signalled
Drained_kept(pending, tuple) == pending

\* a successful correlation removes the matched entries from pending state
Drained(pending, tuple) == [s \in Streams |-> pending[s] \ {tuple[s]}]

\* what a correlation attempt answers: the pending state it leaves and the
\* tuple it signals, if any
Correlated(pending, tuples) == [pending |-> pending, signal |-> tuples]

\* exact policy: the stamp t is signalled once every stream holds it
ExactTime(pending, t) ==
    IF \A s \in Streams : t \in pending[s]
    THEN LET tuple == [s \in Streams |-> t]
         IN Correlated(Drained(pending, tuple), {tuple})
    ELSE Correlated(pending, {})

\* approximate policy: the oldest pending messages of the streams are
\* signalled when the newest of them (high watermark) is within MaxInterval
\* of the oldest (low watermark); otherwise the messages at the low
\* watermark can match nothing any more and are dropped
RECURSIVE ApproximateTime(_)
ApproximateTime(pending) ==
    IF \E s \in Streams : pending[s] = {}
    THEN Correlated(pending, {})
    ELSE LET heads == [s \in Streams |-> Oldest(pending[s])]
             low == Oldest({heads[s] : s \in Streams})
             high == Newest({heads[s] : s \in Streams})
         IN IF high - low <= MaxInterval
            THEN Correlated(Drained(pending, heads), {heads})
            ELSE ApproximateTime([s \in Streams |->
                    IF heads[s] = low THEN pending[s] \ {low} ELSE pending[s]])

\* Synchronizer::add: the message is queued and correlation is attempted
add(sync, s, t) ==
    LET queued == Push(sync.pending, s, t, sync.queue_size)
    IN IF sync.policy = "exact" THEN ExactTime(queued, t)
       ELSE ApproximateTime(queued)

(***************************************************************************)
(* Collaborators of the callbacks.                                         *)
(***************************************************************************)
\* rtabmap::StereoCameraModel(fx, fy, cx, cy, baseline, localTransform, imageSize)
StereoCameraModel(fx, fy, cx, cy, baseline, localTransform, imageSize) ==
    [left |-> [fx |-> fx, fy |-> fy, cx |-> cx, cy |-> cy, imageSize |-> imageSize],
     baseline |-> baseline,
     localTransform |-> localTransform]

\* rtabmap_ros::stereoCameraModelFromROS: the left descriptor's intrinsics, the
\* baseline of the right descriptor and the body-to-sensor transform
stereoCameraModelFromROS(m, localTransform) ==
    StereoCameraModel(m.left.fx, m.left.fy, m.left.cx, m.left.cy,
                      m.baseline, localTransform, m.left.imageSize)

\* cv_bridge::toCvCopy / cv_bridge::cvtColor: the encoding of the image made
\* from an image of encoding enc for the target encoding (none: "")
Converted(enc, target) == IF target = "" THEN enc ELSE target

\* a thread that is not inside a frame callback
Idle == [pc |-> "idle", m |-> Nominal, log |-> {}]

\* the return leaves the static flag of the fallback diagnostic set
Drop_warned(outcome, log, lookups, bodyStamp, fn) ==
    [outcome |-> outcome, log |-> log, lookups |-> lookups,
     bodyStamp |-> bodyStamp, modelBuilt |-> FALSE, processData |-> {},
     warned |-> TRUE, shown |-> shown[fn]]

\* what a callback that returns without calling processData leaves behind
Drop(outcome, log, lookups, bodyStamp, fn) ==
    [outcome |-> outcome, log |-> log, lookups |-> lookups,
     bodyStamp |-> bodyStamp, modelBuilt |-> FALSE, processData |-> {},
     warned |-> warned[fn], shown |-> shown[fn]]

(***************************************************************************)
(* StereoOdometry::callback, the callback of the four-stream synchronizer. *)
(***************************************************************************)
\* the encoding of the right image is not tested
callback_encodingsAccepted_leftOnly(m) ==
    \/ m.encL = TYPE_8UC1 \/ m.encL = MONO8 \/ m.encL = MONO16 \/ m.encL = BGR8
    \/ m.encL = RGB8 \/ m.encL = BGRA8 \/ m.encL = RGBA8

\* both encodings are among the seven the condition compares with
callback_encodingsAccepted(m) ==
    /\ \/ m.encL = TYPE_8UC1 \/ m.encL = MONO8 \/ m.encL = MONO16 \/ m.encL = BGR8
       \/ m.encL = RGB8 \/ m.encL = BGRA8 \/ m.encL = RGBA8
    /\ \/ m.encR = TYPE_8UC1 \/ m.encR = MONO8 \/ m.encR = MONO16 \/ m.encR = BGR8
       \/ m.encR = RGB8 \/ m.encR = BGRA8 \/ m.encR = RGBA8

\* the stamp of the left image is taken whatever the right one is
callback_stamp_left(m) == m.stampL

\* ros::Time stamp = left > right ? left : right
callback_stamp(m) == IF m.stampL > m.stampR THEN m.stampL ELSE m.stampR

\* the size of the right image is not tested
callback_imagesPresent_leftOnly(m) == ~m.emptyL

\* if(imageRectLeft->data.size() && imageRectRight->data.size())
callback_imagesPresent(m) == ~m.emptyL /\ ~m.emptyR

\* if(!alreadyRectified): the right->left lookup and its two error returns
callback_calibration(m) ==
    IF ~alreadyRectified
    THEN IF isNull(m.tfStereo) THEN "MissingCalibrationTransform"
         ELSE IF isIdentity(m.tfStereo) THEN "DegenerateCalibrationTransform"
         ELSE "ok"
    ELSE "ok"

\* the fallback lookup is made for a negative baseline as well
callback_fallbackLooked_nonPositive(stereoModel) ==
    stereoModel.baseline <= 0 /\ alreadyRectified

\* if(stereoModel.baseline() == 0 && alreadyRectified): the fallback lookup is made
callback_fallbackLooked(stereoModel) ==
    stereoModel.baseline = 0 /\ alreadyRectified

\* if(!stereoTransform.isNull() && stereoTransform.x()>0)
callback_fallbackUsed(stereoModel, m) ==
    /\ callback_fallbackLooked(stereoModel)
    /\ ~isNull(m.tfFallback) /\ m.tfFallback.x > 0

\* the fallback model is built with the focal lengths swapped
callback_resolved_swapped(stereoModel, m) ==
    IF callback_fallbackUsed(stereoModel, m)
    THEN StereoCameraModel(stereoModel.left.fy, stereoModel.left.fx,
                           stereoModel.left.cx, stereoModel.left.cy,
                           m.tfFallback.x,
                           stereoModel.localTransform,
                           stereoModel.left.imageSize)
    ELSE stereoModel

\* the stereo model after the fallback block
callback_resolved(stereoModel, m) ==
    IF callback_fallbackUsed(stereoModel, m)
    THEN StereoCameraModel(stereoModel.left.fx, stereoModel.left.fy,
                           stereoModel.left.cx, stereoModel.left.cy,
                           m.tfFallback.x,
                           stereoModel.localTransform,
                           stereoModel.left.imageSize)
    ELSE stereoModel

\* a zero baseline is let through
callback_baselineRejected_strict(stereoModel) ==
    alreadyRectified /\ stereoModel.baseline < 0

\* a large baseline is rejected as well
callback_baselineRejected_large(stereoModel) ==
    \/ alreadyRectified /\ stereoModel.baseline <= 0
    \/ stereoModel.baseline > LargeBaseline

\* if(alreadyRectified && stereoModel.baseline() <= 0)
callback_baselineRejected(stereoModel) ==
    alreadyRectified /\ stereoModel.baseline <= 0

\* if(stereoModel.baseline() > 10.0)
callback_baselineLarge(stereoModel) == stereoModel.baseline > LargeBaseline

\* keep_color is honoured for mono16 as well
callback_leftTarget_mono16(m) ==
    IF m.encL = TYPE_8UC1 \/ m.encL = MONO8 THEN ""
    ELSE IF keepColor_ THEN BGR8 ELSE MONO8

\* the encoding asked of toCvCopy for the left image
callback_leftTarget(m) ==
    IF m.encL = TYPE_8UC1 \/ m.encL = MONO8 THEN ""
    ELSE IF keepColor_ /\ m.encL # MONO16 THEN BGR8 ELSE MONO8

\* the encoding asked of toCvCopy for the right image
callback_rightTarget(m) ==
    IF m.encR = TYPE_8UC1 \/ m.encR = MONO8 THEN "" ELSE MONO8

\* the gate is not consulted
callback_gateOpen_ignored == TRUE

\* the pause gate: if(!this->isPaused())
callback_gateOpen == ~paused

\* the null answer of the body-frame lookup is not tested
callback_bodyMissing_unchecked(localTransform) == FALSE

\* if(localTransform.isNull()) return;
callback_bodyMissing(localTransform) == isNull(localTransform)

\* the assignment warned = true is missing
callback_warnedAfter_unset(used) == warned["callback"]

\* static bool warned: true once the fallback block has printed its warning
callback_warnedAfter(used) == warned["callback"] \/ used

\* static bool shown: true once the large baseline has been reported
callback_shownAfter(large) == shown["callback"] \/ large

\* the whole callback on the tuple m: what it returns with
callback(m) ==
    IF ~callback_gateOpen
    THEN Drop("Paused", {}, {}, 0, "callback")
    ELSE IF ~callback_encodingsAccepted(m)
    THEN Drop("UnsupportedEncoding", {"UnsupportedEncoding"}, {}, 0, "callback")
    ELSE
    LET stamp == callback_stamp(m)
        localTransform == m.tfLocal
    IN
    IF callback_bodyMissing(localTransform)
    THEN Drop("MissingBodyTransform", {}, {"body"}, stamp, "callback")
    ELSE IF ~callback_imagesPresent(m)
    THEN Drop("EmptyImage", {"EmptyImage"}, {"body"}, stamp, "callback")
    ELSE IF callback_calibration(m) # "ok"
    THEN Drop(callback_calibration(m), {callback_calibration(m)},
              {"body", "calibration"}, stamp, "callback")
    ELSE
    LET derived == stereoCameraModelFromROS(m, localTransform)
        stereoModel == callback_resolved(derived, m)
        looked == {"body"}
                    \cup (IF ~alreadyRectified THEN {"calibration"} ELSE {})
                    \cup (IF callback_fallbackLooked(derived) THEN {"fallback"} ELSE {})
        warn == callback_fallbackUsed(derived, m) /\ ~warned["callback"]
        warnedAfter == callback_warnedAfter(callback_fallbackUsed(derived, m))
        logWarn == IF warn THEN {"FallbackBaselineUsed"} ELSE {}
    IN
    IF callback_baselineRejected(stereoModel)
    THEN [outcome |-> "InvalidBaseline", log |-> logWarn \cup {"InvalidBaseline"},
          lookups |-> looked, bodyStamp |-> stamp, modelBuilt |-> TRUE,
          processData |-> {}, warned |-> warnedAfter, shown |-> shown["callback"]]
    ELSE
    LET show == callback_baselineLarge(stereoModel) /\ ~shown["callback"]
        shownAfter == callback_shownAfter(callback_baselineLarge(stereoModel))
        logShow == IF show THEN {"LargeBaseline"} ELSE {}
    IN
    [outcome |-> "Dispatched", log |-> logWarn \cup logShow,
     lookups |-> looked, bodyStamp |-> stamp, modelBuilt |-> TRUE,
     processData |->
        {[imageLeft |-> Converted(m.encL, callback_leftTarget(m)),
          imageRight |-> Converted(m.encR, callback_rightTarget(m)),
          stereoModel |-> stereoModel,
          stamp |-> stamp,
          headerStamp |-> stamp]},
     warned |-> warnedAfter, shown |-> shownAfter]

(***************************************************************************)
(* StereoOdometry::callbackRGBD, the callback of the composite stream.     *)
(***************************************************************************)
callbackRGBD_encodingsAccepted(m) ==
    /\ \/ m.encL = TYPE_8UC1 \/ m.encL = MONO8 \/ m.encL = MONO16 \/ m.encL = BGR8
       \/ m.encL = RGB8 \/ m.encL = BGRA8 \/ m.encL = RGBA8
    /\ \/ m.encR = TYPE_8UC1 \/ m.encR = MONO8 \/ m.encR = MONO16 \/ m.encR = BGR8
       \/ m.encR = RGB8 \/ m.encR = BGRA8 \/ m.encR = RGBA8

callbackRGBD_stamp(m) == IF m.stampL > m.stampR THEN m.stampL ELSE m.stampR

\* if(!imageRectLeft->image.empty() && !imageRectRight->image.empty())
callbackRGBD_imagesPresent(m) == ~m.emptyL /\ ~m.emptyR

\* the null answer of the lookup is not tested
callbackRGBD_calibration_unchecked(m) == "ok"

\* if(!alreadyRectified): the right->left lookup and its one error return
callbackRGBD_calibration(m) ==
    IF ~alreadyRectified
    THEN IF isNull(m.tfStereo) THEN "MissingCalibrationTransform" ELSE "ok"
    ELSE "ok"

callbackRGBD_fallbackLooked(stereoModel) ==
    stereoModel.baseline = 0 /\ alreadyRectified

callbackRGBD_fallbackUsed(stereoModel, m) ==
    /\ callbackRGBD_fallbackLooked(stereoModel)
    /\ ~isNull(m.tfFallback) /\ m.tfFallback.x > 0

callbackRGBD_resolved(stereoModel, m) ==
    IF callbackRGBD_fallbackUsed(stereoModel, m)
    THEN StereoCameraModel(stereoModel.left.fx, stereoModel.left.fy,
                           stereoModel.left.cx, stereoModel.left.cy,
                           m.tfFallback.x,
                           stereoModel.localTransform,
                           stereoModel.left.imageSize)
    ELSE stereoModel

callbackRGBD_baselineRejected(stereoModel) ==
    alreadyRectified /\ stereoModel.baseline <= 0

callbackRGBD_baselineLarge(stereoModel) == stereoModel.baseline > LargeBaseline

\* the encoding asked of cvtColor for the left image ("": no conversion)
callbackRGBD_leftTarget(m) ==
    IF m.encL # TYPE_8UC1 /\ m.encL # MONO8
    THEN IF keepColor_ /\ m.encL # MONO16 THEN BGR8 ELSE MONO8
    ELSE ""

\* the encoding asked of cvtColor for the right image: the condition tests the
\* encoding of imageRectLeft
callbackRGBD_rightTarget(m) ==
    IF m.encL # TYPE_8UC1 /\ m.encL # MONO8 THEN MONO8 ELSE ""

callbackRGBD_gateOpen == ~paused

\* if(localTransform.isNull()) return;
callbackRGBD_bodyMissing(localTransform) == isNull(localTransform)

\* static bool warned: true once the fallback block has printed its warning
callbackRGBD_warnedAfter(used) == warned["callbackRGBD"] \/ used

\* static bool shown: true once the large baseline has been reported
callbackRGBD_shownAfter(large) == shown["callbackRGBD"] \/ large

callbackRGBD(m) ==
    IF ~callbackRGBD_gateOpen
    THEN Drop("Paused", {}, {}, 0, "callbackRGBD")
    ELSE IF ~callbackRGBD_encodingsAccepted(m)
    THEN Drop("UnsupportedEncoding", {"UnsupportedEncoding"}, {}, 0, "callbackRGBD")
    ELSE
    LET stamp == callbackRGBD_stamp(m)
        localTransform == m.tfLocal
    IN
    IF callbackRGBD_bodyMissing(localTransform)
    THEN Drop("MissingBodyTransform", {}, {"body"}, stamp, "callbackRGBD")
    ELSE IF ~callbackRGBD_imagesPresent(m)
    THEN Drop("EmptyImage", {"EmptyImage"}, {"body"}, stamp, "callbackRGBD")
    ELSE IF callbackRGBD_calibration(m) # "ok"
    THEN Drop(callbackRGBD_calibration(m), {callbackRGBD_calibration(m)},
              {"body", "calibration"}, stamp, "callbackRGBD")
    ELSE
    LET derived == stereoCameraModelFromROS(m, localTransform)
        stereoModel == callbackRGBD_resolved(derived, m)
        looked == {"body"}
                    \cup (IF ~alreadyRectified THEN {"calibration"} ELSE {})
                    \cup (IF callbackRGBD_fallbackLooked(derived) THEN {"fallback"} ELSE {})
        warn == callbackRGBD_fallbackUsed(derived, m) /\ ~warned["callbackRGBD"]
        warnedAfter == callbackRGBD_warnedAfter(callbackRGBD_fallbackUsed(derived, m))
        logWarn == IF warn THEN {"FallbackBaselineUsed"} ELSE {}
    IN
    IF callbackRGBD_baselineRejected(stereoModel)
    THEN [outcome |-> "InvalidBaseline", log |-> logWarn \cup {"InvalidBaseline"},
          lookups |-> looked, bodyStamp |-> stamp, modelBuilt |-> TRUE,
          processData |-> {}, warned |-> warnedAfter, shown |-> shown["callbackRGBD"]]
    ELSE
    LET show == callbackRGBD_baselineLarge(stereoModel) /\ ~shown["callbackRGBD"]
        shownAfter == callbackRGBD_shownAfter(callbackRGBD_baselineLarge(stereoModel))
        logShow == IF show THEN {"LargeBaseline"} ELSE {}
    IN
    [outcome |-> "Dispatched", log |-> logWarn \cup logShow,
     lookups |-> looked, bodyStamp |-> stamp, modelBuilt |-> TRUE,
     processData |->
        {[imageLeft |-> Converted(m.encL, callbackRGBD_leftTarget(m)),
          imageRight |-> Converted(m.encR, callbackRGBD_rightTarget(m)),
          stereoModel |-> stereoModel,
          stamp |-> stamp,
          headerStamp |-> stamp]},
     warned |-> warnedAfter, shown |-> shownAfter]

(***************************************************************************)
(* Operations.                                                             *)
(***************************************************************************)
\* callbackCalled(), the first statement of both callbacks: the base class
\* notes that a callback was received
callbackCalled == TRUE

\* what an operation that is no frame callback leaves in last
Other(op) ==
    [op |-> op, in |-> Nominal, paused |-> paused,
     outcome |-> "none", log |-> {}, lookups |-> {}, bodyStamp |-> 0,
     modelBuilt |-> FALSE, processData |-> {}]

\* the state a frame callback leaves: its statics, its diagnostics, its record
Returned(fn, m, r) ==
    /\ warned' = [warned EXCEPT ![fn] = r.warned]
    /\ shown' = [shown EXCEPT ![fn] = r.shown]
    /\ emitted' = [d \in OneShot |->
                     IF d \in r.log THEN Min(emitted[d] + 1, MaxEmit) ELSE emitted[d]]
    /\ callbackCalled_' = callbackCalled
    /\ last' = [op |-> fn, in |-> m, paused |-> paused,
                outcome |-> r.outcome, log |-> r.log, lookups |-> r.lookups,
                bodyStamp |-> r.bodyStamp, modelBuilt |-> r.modelBuilt,
                processData |-> r.processData]

\* the synchronizer emits a correlated tuple: callback runs on it
Callback ==
    /\ ~subscribeRGBD
    /\ \E m \in Inputs : Returned("callback", m, callback(m))
    /\ UNCHANGED <<arrived, flushed, signal, signalled, paused, config, approxSync_, exactSync_, thr>>

\* a composite message arrives: callbackRGBD runs on it
CallbackRGBD ==
    /\ subscribeRGBD
    /\ \E m \in Inputs : Returned("callbackRGBD", m, callbackRGBD(m))
    /\ UNCHANGED <<arrived, flushed, signal, signalled, paused, config, approxSync_, exactSync_, thr>>

\* the pause gate is closed from outside
Pause ==
    /\ ~paused
    /\ paused' = TRUE
    /\ last' = Other("pause")
    /\ UNCHANGED <<arrived, flushed, signal, signalled, callbackCalled_, config, approxSync_, exactSync_, warned, shown, emitted, thr>>

\* the pause gate is opened from outside
Resume ==
    /\ paused
    /\ paused' = FALSE
    /\ last' = Other("resume")
    /\ UNCHANGED <<arrived, flushed, signal, signalled, callbackCalled_, config, approxSync_, exactSync_, warned, shown, emitted, thr>>

\* the synchronizers are left as they are
flushCallbacks_kept ==
    /\ flushed' = arrived
    /\ last' = Other("flushCallbacks")
    /\ UNCHANGED <<approxSync_, exactSync_, arrived, signal, signalled, callbackCalled_,
                   paused, config, warned, shown, emitted, thr>>

\* flushCallbacks: each synchronizer that exists is deleted and built anew
flushCallbacks ==
    /\ approxSync_' = IF approxSync_.alive
                      THEN Synchronizer("approx", queueSize_) ELSE approxSync_
    /\ exactSync_' = IF exactSync_.alive
                     THEN Synchronizer("exact", queueSize_) ELSE exactSync_
    /\ flushed' = arrived
    /\ last' = Other("flushCallbacks")
    /\ UNCHANGED <<arrived, signal, signalled, callbackCalled_, paused, config, warned, shown, emitted, thr>>

\* onOdomInit: the synchronizer built for the four streams when approx_sync
\* is set, and no synchronizer for the composite stream
onOdomInit_approxSync_(approxSync) ==
    IF ~subscribeRGBD /\ approxSync THEN Synchronizer("approx", queueSize_) ELSE NULL

\* the exact synchronizer is built with the approximate policy
onOdomInit_exactSync_approx(approxSync) ==
    IF ~subscribeRGBD /\ ~approxSync THEN Synchronizer("approx", queueSize_) ELSE NULL

\* onOdomInit: the synchronizer built for the four streams otherwise
onOdomInit_exactSync_(approxSync) ==
    IF ~subscribeRGBD /\ ~approxSync THEN Synchronizer("exact", queueSize_) ELSE NULL

\* the state after the constructor and onOdomInit
Init ==
    /\ paused = FALSE
    /\ subscribeRGBD \in BOOLEAN
    /\ queueSize_ = DefaultQueueSize
    /\ keepColor_ \in BOOLEAN
    /\ alreadyRectified \in BOOLEAN
    /\ \E approxSync \in BOOLEAN :
         /\ approxSync_ = onOdomInit_approxSync_(approxSync)
         /\ exactSync_ = onOdomInit_exactSync_(approxSync)
    /\ warned = [fn \in Functions |-> FALSE]
    /\ shown = [fn \in Functions |-> FALSE]
    /\ emitted = [d \in OneShot |-> 0]
    /\ callbackCalled_ = FALSE
    /\ arrived = NoStamps
    /\ flushed = NoStamps
    /\ signal = NoStamps
    /\ signalled = 0
    /\ last = Other("init")
    /\ thr = [t \in Threads |-> Idle]

Next ==
    \/ Callback
    \/ CallbackRGBD
    \/ Pause
    \/ Resume
    \/ flushCallbacks

Spec == Init /\ [][Next]_vars

(***************************************************************************)
(* The four streams deliver their messages to the synchronizer, which      *)
(* calls callback with each tuple it correlates.                           *)
(***************************************************************************)
\* the tuple as callback receives it: the two images carry their stamps
TupleInput(tuple) ==
    [Nominal EXCEPT !.stampL = tuple["imageRectLeft"],
                    !.stampR = tuple["imageRectRight"]]

\* the subscriber s delivers a message stamped t to the synchronizer, which
\* queues it, attempts correlation and calls callback on the tuple it finds;
\* the stamps of a stream grow, and at most one message in a row is lost
Arrive(s, t) ==
    /\ ~subscribeRGBD
    /\ t \in {arrived[s] + 1, arrived[s] + 2}
    /\ arrived' = [arrived EXCEPT ![s] = t]
    /\ LET sync == IF approxSync_.alive THEN approxSync_ ELSE exactSync_
           r == add(sync, s, t)
       IN /\ approxSync_' = IF approxSync_.alive
                             THEN [approxSync_ EXCEPT !.pending = r.pending]
                             ELSE approxSync_
          /\ exactSync_' = IF approxSync_.alive THEN exactSync_
                            ELSE [exactSync_ EXCEPT !.pending = r.pending]
          /\ IF r.signal = {}
             THEN /\ last' = Other("add")
                  /\ UNCHANGED <<signal, signalled, warned, shown, emitted,
                                 callbackCalled_>>
             ELSE \E tuple \in r.signal :
                    /\ signal' = tuple
                    /\ signalled' = signalled + 1
                    /\ Returned("callback", TupleInput(tuple),
                                callback(TupleInput(tuple)))
    /\ UNCHANGED <<flushed, paused, config, thr>>

\* onOdomInit with the four streams subscribed and a small queue_size
InitSync ==
    /\ paused = FALSE
    /\ subscribeRGBD = FALSE
    /\ queueSize_ \in QueueSizes
    /\ keepColor_ = FALSE
    /\ alreadyRectified = FALSE
    /\ \E approxSync \in BOOLEAN :
         /\ approxSync_ = onOdomInit_approxSync_(approxSync)
         /\ exactSync_ = onOdomInit_exactSync_(approxSync)
    /\ warned = [fn \in Functions |-> FALSE]
    /\ shown = [fn \in Functions |-> FALSE]
    /\ emitted = [d \in OneShot |-> 0]
    /\ callbackCalled_ = FALSE
    /\ arrived = NoStamps
    /\ flushed = NoStamps
    /\ signal = NoStamps
    /\ signalled = 0
    /\ last = Other("init")
    /\ thr = [t \in Threads |-> Idle]

NextSync ==
    \/ \E s \in Streams : \E t \in 1..MaxArrive : Arrive(s, t)
    \/ flushCallbacks

SpecSync == InitSync /\ [][NextSync]_vars

(***************************************************************************)
(* The frame callback run by several threads at once.  A step of a thread  *)
(* is the code from one access to a static flag to the next: the test of   *)
(* the flag (if(!warned), if(!shown)) is one step, and the print with the  *)
(* assignment that follows it (warned = true, shown = true) is the next.   *)
(***************************************************************************)
\* the callback function the node has subscribed
Subscribed == IF subscribeRGBD THEN "callbackRGBD" ELSE "callback"

ResultOf(fn, m) == IF fn = "callback" THEN callback(m) ELSE callbackRGBD(m)

DerivedOf(m) == stereoCameraModelFromROS(m, m.tfLocal)

FallbackUsedOf(fn, m) ==
    IF fn = "callback" THEN callback_fallbackUsed(DerivedOf(m), m)
    ELSE callbackRGBD_fallbackUsed(DerivedOf(m), m)

ResolvedOf(fn, m) ==
    IF fn = "callback" THEN callback_resolved(DerivedOf(m), m)
    ELSE callbackRGBD_resolved(DerivedOf(m), m)

LargeOf(fn, m) ==
    IF fn = "callback" THEN callback_baselineLarge(ResolvedOf(fn, m))
    ELSE callbackRGBD_baselineLarge(ResolvedOf(fn, m))

\* the returns that come before the first access to a static flag
EarlyDrops ==
    {"Paused", "UnsupportedEncoding", "MissingBodyTransform", "EmptyImage",
     "MissingCalibrationTransform", "DegenerateCalibrationTransform"}

\* where the callback stands once the fallback block is behind it
AfterFallback(fn, m) ==
    IF ResultOf(fn, m).outcome = "InvalidBaseline" THEN "rejected"
    ELSE IF LargeOf(fn, m) THEN "testShown"
    ELSE "dispatch"

\* the tuples given to the concurrent callbacks: each baseline of the right
\* descriptor, and the zero baseline with a large fallback translation
ConcInputs ==
    Vary({Nominal}, "baseline")
        \cup {[Nominal EXCEPT !.baseline = 0,
                              !.tfFallback = Translation(LargeBaseline + 2)]}

\* the record a thread leaves in last when its callback returns
Left(fn, t, outcome, processData) ==
    [op |-> fn, in |-> thr[t].m, paused |-> paused,
     outcome |-> outcome, log |-> thr[t].log,
     lookups |-> ResultOf(fn, thr[t].m).lookups,
     bodyStamp |-> ResultOf(fn, thr[t].m).bodyStamp,
     modelBuilt |-> TRUE, processData |-> processData]

\* thread t enters the callback with the tuple m and runs to the first
\* access to a static flag, or to a return that comes before it
Enter(t, m) ==
    /\ thr[t].pc = "idle"
    /\ LET fn == Subscribed
           r == ResultOf(fn, m)
       IN IF r.outcome \in EarlyDrops
          THEN /\ Returned(fn, m, r)
               /\ UNCHANGED thr
          ELSE /\ thr' = [thr EXCEPT ![t] =
                            [pc |-> IF FallbackUsedOf(fn, m) THEN "testWarned"
                                    ELSE AfterFallback(fn, m),
                             m |-> m, log |-> {}]]
               /\ callbackCalled_' = callbackCalled
               /\ UNCHANGED <<warned, shown, emitted, last>>
    /\ UNCHANGED <<arrived, flushed, signal, signalled, paused, config, approxSync_, exactSync_>>

\* if(!warned)
TestWarned(t) ==
    /\ thr[t].pc = "testWarned"
    /\ thr' = [thr EXCEPT ![t].pc =
                 IF ~warned[Subscribed] THEN "warn"
                 ELSE AfterFallback(Subscribed, thr[t].m)]
    /\ UNCHANGED <<arrived, flushed, signal, signalled, callbackCalled_, paused, config, approxSync_, exactSync_, warned, shown, emitted, last>>

\* ROS_WARN(...); warned = true;
Warn(t) ==
    /\ thr[t].pc = "warn"
    /\ emitted' = [emitted EXCEPT !["FallbackBaselineUsed"] = Min(@ + 1, MaxEmit)]
    /\ warned' = [warned EXCEPT ![Subscribed] = TRUE]
    /\ thr' = [thr EXCEPT ![t].pc = AfterFallback(Subscribed, thr[t].m),
                          ![t].log = @ \cup {"FallbackBaselineUsed"}]
    /\ UNCHANGED <<arrived, flushed, signal, signalled, callbackCalled_, paused, config, approxSync_, exactSync_, shown, last>>

\* NODELET_ERROR(...); return;  (the baseline is not positive)
Reject(t) ==
    /\ thr[t].pc = "rejected"
    /\ last' = Left(Subscribed, t, "InvalidBaseline", {})
                 @@ [log |-> thr[t].log \cup {"InvalidBaseline"}]
    /\ thr' = [thr EXCEPT ![t] = Idle]
    /\ UNCHANGED <<arrived, flushed, signal, signalled, callbackCalled_, paused, config, approxSync_, exactSync_, warned, shown, emitted>>

\* if(!shown)
TestShown(t) ==
    /\ thr[t].pc = "testShown"
    /\ thr' = [thr EXCEPT ![t].pc = IF ~shown[Subscribed] THEN "show" ELSE "dispatch"]
    /\ UNCHANGED <<arrived, flushed, signal, signalled, callbackCalled_, paused, config, approxSync_, exactSync_, warned, shown, emitted, last>>

\* NODELET_WARN(...); shown = true;
Show(t) ==
    /\ thr[t].pc = "show"
    /\ emitted' = [emitted EXCEPT !["LargeBaseline"] = Min(@ + 1, MaxEmit)]
    /\ shown' = [shown EXCEPT ![Subscribed] = TRUE]
    /\ thr' = [thr EXCEPT ![t].pc = "dispatch",
                          ![t].log = @ \cup {"LargeBaseline"}]
    /\ UNCHANGED <<arrived, flushed, signal, signalled, callbackCalled_, paused, config, approxSync_, exactSync_, warned, last>>

\* the images are converted and the frame is handed to processData
Dispatch(t) ==
    /\ thr[t].pc = "dispatch"
    /\ last' = Left(Subscribed, t, "Dispatched",
                    ResultOf(Subscribed, thr[t].m).processData)
    /\ thr' = [thr EXCEPT ![t] = Idle]
    /\ UNCHANGED <<arrived, flushed, signal, signalled, callbackCalled_, paused, config, approxSync_, exactSync_, warned, shown, emitted>>

NextConc ==
    \E t \in Threads :
        \/ \E m \in ConcInputs : Enter(t, m)
        \/ TestWarned(t)
        \/ Warn(t)
        \/ Reject(t)
        \/ TestShown(t)
        \/ Show(t)
        \/ Dispatch(t)

SpecConc == Init /\ [][NextConc]_vars

\* flushCallbacks is called while the threads run the frame callback: the
\* function takes no lock and does not wait for a callback to return
NextFlush ==
    \/ NextConc
    \/ flushCallbacks

SpecFlush == Init /\ [][NextFlush]_vars

(***************************************************************************)
(* Vocabulary of the properties.                                           *)
(***************************************************************************)
\* the accepted set of encodings, as the specification lists it
AcceptedSet == {"8UC1", "mono8", "mono16", "bgr8", "rgb8", "bgra8", "rgba8"}

\* the last operation was a frame callback
Called == last.op \in Functions

\* ... on a tuple that arrived while the gate was open
Open == Called /\ ~last.paused

\* ... and that passed the encoding check, the body-frame lookup and the
\* emptiness check, so that the stereo geometry was resolved for it
Resolving ==
    /\ Open
    /\ last.in.encL \in AcceptedSet /\ last.in.encR \in AcceptedSet
    /\ ~isNull(last.in.tfLocal)
    /\ ~last.in.emptyL /\ ~last.in.emptyR

\* the left->right lookup answers with a positive translation along x
FallbackAvailable(m) == ~isNull(m.tfFallback) /\ m.tfFallback.x > 0

\* the baseline of an already-rectified pair after the optional recovery
RecoveredBaseline(m) ==
    IF m.baseline = 0 /\ FallbackAvailable(m) THEN m.tfFallback.x ELSE m.baseline

\* a tuple no check of the pipeline objects to
ValidTuple(m) ==
    /\ m.encL \in AcceptedSet /\ m.encR \in AcceptedSet
    /\ ~isNull(m.tfLocal)
    /\ ~m.emptyL /\ ~m.emptyR
    /\ alreadyRectified => RecoveredBaseline(m) > 0
    /\ ~alreadyRectified => ~isNull(m.tfStereo) /\ ~isIdentity(m.tfStereo)

\* the frame carries the data of the tuple m, unmodified
Carries(f, m) ==
    /\ f.stamp = (IF m.stampL > m.stampR THEN m.stampL ELSE m.stampR)
    /\ f.headerStamp = f.stamp
    /\ f.stereoModel.left = m.left
    /\ f.stereoModel.localTransform = m.tfLocal
    /\ f.stereoModel.baseline =
          (IF alreadyRectified THEN RecoveredBaseline(m) ELSE m.baseline)

(***************************************************************************)
(* C1.  In both callbacks: a tuple that arrives while the gate is paused   *)
(* causes no call to processData (and changes no flag); pausing and        *)
(* resuming change nothing but the gate; and a valid tuple that arrives    *)
(* while the gate is open, whatever came before, is handed to processData  *)
(* as exactly one frame that carries the tuple's data.                     *)
(***************************************************************************)
C1_PauseGate ==
    [][/\ (paused /\ last'.op \in Functions) =>
             /\ last'.processData = {}
             /\ last'.lookups = {}
             /\ UNCHANGED <<warned, shown, emitted>>
       /\ (paused' # paused) =>
             UNCHANGED <<config, approxSync_, exactSync_, warned, shown, emitted>>
       /\ (~paused /\ last'.op \in Functions /\ ValidTuple(last'.in)) =>
             /\ Cardinality(last'.processData) = 1
             /\ \A f \in last'.processData : Carries(f, last'.in)]_vars

\* a valid tuple was dropped at the closed gate
C1_Witness ==
    /\ Called /\ last.paused /\ paused
    /\ ValidTuple(last.in)
    /\ last.outcome = "Paused" /\ last.processData = {}

(***************************************************************************)
(* C2.  Every frame handed to processData while ImagesAlreadyRectified is  *)
(* true has a strictly positive baseline; and when the geometry is         *)
(* resolved for an already-rectified tuple whose baseline after the        *)
(* optional recovery is <= 0, the tuple is dropped with InvalidBaseline    *)
(* and processData is not called.                                          *)
(***************************************************************************)
C2_PositiveBaseline ==
    (Called /\ alreadyRectified) =>
        /\ \A f \in last.processData : f.stereoModel.baseline > 0
        /\ (Resolving /\ RecoveredBaseline(last.in) <= 0) =>
              /\ last.outcome = "InvalidBaseline"
              /\ "InvalidBaseline" \in last.log
              /\ last.processData = {}

\* a zero baseline the fallback lookup could not recover was rejected
C2_Witness ==
    /\ Resolving /\ alreadyRectified
    /\ last.in.baseline = 0 /\ ~FallbackAvailable(last.in)
    /\ "fallback" \in last.lookups
    /\ last.outcome = "InvalidBaseline"

(***************************************************************************)
(* C3.  When ImagesAlreadyRectified is true, the right descriptor yields a *)
(* baseline of exactly 0 and the left->right lookup answers with x > 0,    *)
(* the frame handed to processData has baseline x and the left intrinsics, *)
(* image size and body-to-sensor transform of the derived model.           *)
(***************************************************************************)
C3_FallbackModel ==
    (Resolving /\ alreadyRectified /\ last.in.baseline = 0
        /\ FallbackAvailable(last.in)) =>
        /\ last.outcome = "Dispatched"
        /\ last.processData # {}
        /\ \A f \in last.processData :
              f.stereoModel = [left |-> last.in.left,
                               baseline |-> last.in.tfFallback.x,
                               localTransform |-> last.in.tfLocal]

\* the fallback was taken for a tuple with the second left descriptor
C3_Witness ==
    /\ Resolving /\ alreadyRectified
    /\ last.in.baseline = 0 /\ FallbackAvailable(last.in)
    /\ last.in.left = LeftInfoB
    /\ \E f \in last.processData : f.stereoModel.baseline = last.in.tfFallback.x

(***************************************************************************)
(* C4.  When ImagesAlreadyRectified is false and the right->left lookup    *)
(* answers with the identity, the tuple is dropped with                    *)
(* DegenerateCalibrationTransform and processData is not called, in both   *)
(* input modes.                                                            *)
(***************************************************************************)
C4_DegenerateCalibration ==
    (Resolving /\ ~alreadyRectified /\ isIdentity(last.in.tfStereo)) =>
        /\ last.outcome = "DegenerateCalibrationTransform"
        /\ last.processData = {}

(***************************************************************************)
(* C5.  When ImagesAlreadyRectified is false and the right->left lookup is *)
(* unavailable, the tuple is dropped with MissingCalibrationTransform: no  *)
(* stereo model is built and processData is not called, in both input      *)
(* modes.                                                                  *)
(***************************************************************************)
C5_MissingCalibration ==
    (Resolving /\ ~alreadyRectified /\ isNull(last.in.tfStereo)) =>
        /\ last.outcome = "MissingCalibrationTransform"
        /\ "MissingCalibrationTransform" \in last.log
        /\ ~last.modelBuilt
        /\ last.processData = {}

\* the composite callback dropped a tuple for its missing calibration
C5_Witness ==
    /\ Resolving /\ ~alreadyRectified /\ isNull(last.in.tfStereo)
    /\ last.op = "callbackRGBD"
    /\ last.outcome = "MissingCalibrationTransform"

(***************************************************************************)
(* C6.  With the frame callback running on several threads at once, each   *)
(* one-shot flag is written at most once and its diagnostic is printed at  *)
(* most once.                                                              *)
(***************************************************************************)
C6_OnceUnderConcurrency == \A d \in OneShot : emitted[d] <= 1

(***************************************************************************)
(* C7.  With the frames processed one at a time: a frame prints the        *)
(* fallback diagnostic exactly when it takes the fallback path and none    *)
(* before it did, and the large-baseline diagnostic exactly when its       *)
(* baseline is above 10 and none before it was, so each is printed exactly *)
(* once; a flag that is set is never cleared, and pause, resume and        *)
(* flushCallbacks change neither the flags nor the counts.                 *)
(***************************************************************************)
C7_OneShotOnce ==
    [][/\ \A fn \in Functions : /\ warned[fn] => warned'[fn]
                                /\ shown[fn] => shown'[fn]
       /\ last'.op \notin Functions => UNCHANGED <<warned, shown, emitted>>
       /\ last'.op \in Functions =>
            LET fn == last'.op
                m == last'.in
                fallback == /\ ~paused
                            /\ m.encL \in AcceptedSet /\ m.encR \in AcceptedSet
                            /\ ~isNull(m.tfLocal)
                            /\ ~m.emptyL /\ ~m.emptyR
                            /\ alreadyRectified /\ m.baseline = 0
                            /\ FallbackAvailable(m)
                large == \E f \in last'.processData :
                            f.stereoModel.baseline > LargeBaseline
            IN /\ "FallbackBaselineUsed" \in last'.log <=> (fallback /\ ~warned[fn])
               /\ "LargeBaseline" \in last'.log <=> (large /\ ~shown[fn])
               /\ warned'[fn] <=> (warned[fn] \/ fallback)
               /\ shown'[fn] <=> (shown[fn] \/ large)
               /\ emitted'["FallbackBaselineUsed"] = (IF warned'[fn] THEN 1 ELSE 0)
               /\ emitted'["LargeBaseline"] = (IF shown'[fn] THEN 1 ELSE 0)]_vars

\* a later frame took the fallback path with a large baseline and printed nothing
C7_Witness ==
    /\ Resolving /\ alreadyRectified
    /\ last.in.baseline = 0 /\ FallbackAvailable(last.in)
    /\ last.in.tfFallback.x > LargeBaseline
    /\ last.outcome = "Dispatched" /\ last.log = {}
    /\ emitted = [d \in OneShot |-> 1]

(***************************************************************************)
(* C8.  On an open gate: if the encoding of the left or of the right       *)
(* image is outside the accepted set, the tuple is dropped with            *)
(* UnsupportedEncoding before any transform lookup, and processData is not *)
(* called; a tuple with both encodings in the set is never dropped for its *)
(* encoding.                                                               *)
(***************************************************************************)
C8_UnsupportedEncoding ==
    Open =>
        IF last.in.encL \in AcceptedSet /\ last.in.encR \in AcceptedSet
        THEN /\ last.outcome # "UnsupportedEncoding"
             /\ "UnsupportedEncoding" \notin last.log
        ELSE /\ last.outcome = "UnsupportedEncoding"
             /\ last.lookups = {}
             /\ ~last.modelBuilt
             /\ last.processData = {}

\* the right encoding alone was unsupported, and the body-frame lookup would
\* have failed
C8_Witness ==
    /\ Open
    /\ last.in.encL \in AcceptedSet /\ last.in.encR \notin AcceptedSet
    /\ isNull(last.in.tfLocal)
    /\ last.outcome = "UnsupportedEncoding"

(***************************************************************************)
(* C9, as stated.  Every tuple received on an open gate in which the left  *)
(* or the right image is empty fails with EmptyImage: the diagnostic is    *)
(* logged and nothing is dispatched, whatever the body-frame lookup        *)
(* answers.                                                                *)
(***************************************************************************)
C9_EmptyImageAlways ==
    (Open /\ (last.in.emptyL \/ last.in.emptyR)) =>
        /\ last.outcome = "EmptyImage"
        /\ "EmptyImage" \in last.log
        /\ last.processData = {}

(***************************************************************************)
(* C9, amended.  A tuple received on an open gate in which the left or the *)
(* right image is empty is never dispatched.  It fails with EmptyImage,    *)
(* with the diagnostic logged, when both encodings are accepted and the    *)
(* body-frame lookup is available; with an unsupported encoding it fails   *)
(* with UnsupportedEncoding, and with both encodings accepted and the      *)
(* body-frame lookup unavailable it is dropped without any diagnostic.     *)
(***************************************************************************)
C9_EmptyImage ==
    (Open /\ (last.in.emptyL \/ last.in.emptyR)) =>
        /\ last.processData = {}
        /\ IF last.in.encL \notin AcceptedSet \/ last.in.encR \notin AcceptedSet
           THEN last.outcome = "UnsupportedEncoding"
           ELSE IF isNull(last.in.tfLocal)
           THEN last.outcome = "MissingBodyTransform" /\ last.log = {}
           ELSE last.outcome = "EmptyImage" /\ last.log = {"EmptyImage"}

\* the right image alone was empty and the tuple failed with EmptyImage
C9_Witness ==
    /\ Open
    /\ ~last.in.emptyL /\ last.in.emptyR
    /\ last.outcome = "EmptyImage" /\ "EmptyImage" \in last.log

(***************************************************************************)
(* C10.  If the body-frame lookup is made (open gate, accepted encodings)  *)
(* and is unavailable, the tuple is dropped silently: nothing is logged,   *)
(* processData is not called, neither the calibration nor the fallback     *)
(* lookup is attempted, no stereo model is built, and no one-shot flag or  *)
(* count changes.                                                          *)
(***************************************************************************)
C10_MissingBodyTransform ==
    [][(/\ last'.op \in Functions /\ ~paused
        /\ last'.in.encL \in AcceptedSet /\ last'.in.encR \in AcceptedSet
        /\ isNull(last'.in.tfLocal)) =>
            /\ last'.outcome = "MissingBodyTransform"
            /\ last'.log = {}
            /\ last'.processData = {}
            /\ last'.lookups = {"body"}
            /\ ~last'.modelBuilt
            /\ UNCHANGED <<warned, shown, emitted>>]_vars

\* the body-frame lookup failed for a tuple that would have taken the fallback
C10_Witness ==
    /\ Open
    /\ last.in.encL \in AcceptedSet /\ last.in.encR \in AcceptedSet
    /\ isNull(last.in.tfLocal)
    /\ last.in.baseline = 0
    /\ last.outcome = "MissingBodyTransform"

(***************************************************************************)
(* C11.  Every frame handed to processData, and the header passed with it, *)
(* is stamped with the later of the two image stamps; the body-frame       *)
(* lookup is made at that same stamp; the stamp is never smaller than the  *)
(* stamp of either image.                                                  *)
(***************************************************************************)
C11_LaterStamp ==
    Called =>
        /\ \A f \in last.processData :
              /\ f.stamp \in {last.in.stampL, last.in.stampR}
              /\ f.stamp >= last.in.stampL /\ f.stamp >= last.in.stampR
              /\ f.headerStamp = f.stamp
              /\ last.bodyStamp = f.stamp
        /\ "body" \in last.lookups =>
              /\ last.bodyStamp \in {last.in.stampL, last.in.stampR}
              /\ last.bodyStamp >= last.in.stampL
              /\ last.bodyStamp >= last.in.stampR

\* a frame whose right image is the later one was dispatched
C11_Witness ==
    /\ Called /\ last.in.stampL < last.in.stampR
    /\ \E f \in last.processData : f.stamp = last.in.stampR

(***************************************************************************)
(* C12.  For every accepted encoding of the left image and both values of  *)
(* keep_color, the left image of the dispatched frame is: unchanged for    *)
(* 8UC1 and mono8; mono8 for mono16, with keep_color or without; bgr8 for  *)
(* bgr8, rgb8, bgra8 and rgba8 with keep_color and mono8 without.          *)
(* Converting the converted image once more changes nothing.               *)
(***************************************************************************)
C12_LeftConversion ==
    Called =>
        \A f \in last.processData :
            /\ last.in.encL \in {"8UC1", "mono8"} => f.imageLeft = last.in.encL
            /\ last.in.encL = "mono16" => f.imageLeft = "mono8"
            /\ last.in.encL \in {"bgr8", "rgb8", "bgra8", "rgba8"} =>
                  f.imageLeft = (IF keepColor_ THEN "bgr8" ELSE "mono8")
            /\ \A g \in ResultOf(last.op, [last.in EXCEPT !.encL = f.imageLeft]).processData :
                  g.imageLeft = f.imageLeft

\* a mono16 left image was dispatched as mono8 although keep_color is set
C12_Witness ==
    /\ Called /\ keepColor_ /\ last.in.encL = "mono16"
    /\ \E f \in last.processData : f.imageLeft = "mono8"

(***************************************************************************)
(* C13.  In every dispatched frame, in both input modes, the right image   *)
(* is single-channel 8-bit (8UC1 or mono8), whatever the encodings of the  *)
(* two images and keep_color are.                                          *)
(***************************************************************************)
C13_RightSingleChannel ==
    Called => \A f \in last.processData : f.imageRight \in {"8UC1", "mono8"}

(***************************************************************************)
(* C14.  A tuple that passes every other check and has a baseline above 10 *)
(* is handed to processData with that baseline, when the large-baseline    *)
(* diagnostic is printed for it and when it is not.                        *)
(***************************************************************************)
C14_LargeBaselineDispatched ==
    LET b == IF alreadyRectified THEN RecoveredBaseline(last.in)
             ELSE last.in.baseline
    IN (Open /\ ValidTuple(last.in) /\ b > LargeBaseline) =>
          /\ last.outcome = "Dispatched"
          /\ \E f \in last.processData : f.stereoModel.baseline = b
          /\ \A f \in last.processData : f.stereoModel.baseline = b

\* a later frame with a large baseline was dispatched without the diagnostic
C14_Witness ==
    /\ Open /\ ValidTuple(last.in)
    /\ last.in.baseline > LargeBaseline
    /\ "LargeBaseline" \notin last.log
    /\ shown[last.op]
    /\ \E f \in last.processData : f.stereoModel.baseline = last.in.baseline

(***************************************************************************)
(* C20.  The fallback lookup is made exactly when the geometry is resolved *)
(* with ImagesAlreadyRectified true and a derived baseline of exactly 0:   *)
(* a negative baseline makes no fallback lookup and fails with             *)
(* InvalidBaseline even when the left->right translation is positive, and  *)
(* a positive baseline, however small, is dispatched as it is.             *)
(***************************************************************************)
C20_FallbackOnlyOnZero ==
    Called =>
        /\ "fallback" \in last.lookups <=>
              (Resolving /\ alreadyRectified /\ last.in.baseline = 0)
        /\ (Resolving /\ alreadyRectified /\ last.in.baseline < 0) =>
              /\ last.outcome = "InvalidBaseline"
              /\ last.processData = {}
        /\ (last.in.baseline > 0) =>
              \A f \in last.processData : f.stereoModel.baseline = last.in.baseline

\* a negative baseline was rejected although the fallback translation is positive
C20_Witness ==
    /\ Resolving /\ alreadyRectified
    /\ last.in.baseline < 0 /\ FallbackAvailable(last.in)
    /\ last.outcome = "InvalidBaseline"
    /\ "fallback" \notin last.lookups

TheSync == IF approxSync_.alive THEN approxSync_ ELSE exactSync_

(***************************************************************************)
(* C15.  flushCallbacks leaves the pending state of the synchronizer empty *)
(* for every stream, leaves an approximate synchronizer approximate and an *)
(* exact one exact, and gives it the current queue size; no tuple signalled*)
(* after a flush holds a message that was delivered before that flush, so  *)
(* no tuple combines a message from before with a message from after.      *)
(***************************************************************************)
C15_FlushEmpties ==
    [][/\ last'.op = "flushCallbacks" =>
             /\ approxSync_'.pending = NoPending
             /\ exactSync_'.pending = NoPending
             /\ approxSync_'.alive = approxSync_.alive
             /\ exactSync_'.alive = exactSync_.alive
             /\ approxSync_'.policy = approxSync_.policy
             /\ exactSync_'.policy = exactSync_.policy
             /\ TheSync'.queue_size = queueSize_
       /\ last'.op = "callback" =>
             \A s \in Streams : signal'[s] > flushed[s]]_vars

\* messages were pending on some streams when the synchronizer was flushed,
\* and a tuple was signalled afterwards
C15_Witness ==
    /\ last.op = "callback"
    /\ \E s \in Streams : flushed[s] > 0
    /\ \E s \in Streams : flushed[s] = 0
    /\ signalled = 1

(***************************************************************************)
(* C16.  flushCallbacks never runs while a thread is inside the callback   *)
(* of a tuple, that is, inside the correlation of the synchronizer that    *)
(* flushCallbacks deletes.                                                 *)
(***************************************************************************)
C16_FlushExcluded ==
    [][(last'.op = "flushCallbacks" /\ TheSync.alive) =>
          \A t \in Threads : thr[t].pc = "idle"]_vars

(***************************************************************************)
(* C17.  With the exact synchronizer, the four messages of every tuple     *)
(* signalled have the same stamp, and a pending message stays pending      *)
(* until it is signalled in such a tuple, or is the oldest of a full queue *)
(* when a message arrives on its stream, or the synchronizer is flushed.   *)
(***************************************************************************)
C17_ExactOnlyIdentical ==
    [][exactSync_.alive =>
          /\ last'.op = "callback" =>
                /\ \A s \in Streams : signal'[s] = signal'["imageRectLeft"]
                /\ last'.in.stampL = last'.in.stampR
          /\ last'.op # "flushCallbacks" =>
                \A s \in Streams : \A t \in exactSync_.pending[s] :
                    \/ t \in exactSync_'.pending[s]
                    \/ /\ last'.op = "callback"
                       /\ \A u \in Streams : signal'[u] = t
                    \/ /\ arrived'[s] # arrived[s]
                       /\ Cardinality(exactSync_.pending[s]) = exactSync_.queue_size
                       /\ t = Oldest(exactSync_.pending[s])]_vars

\* every stream holds a message, two of them one unit apart, and the exact
\* synchronizer has signalled nothing
C17_Witness ==
    /\ exactSync_.alive
    /\ \A s \in Streams : exactSync_.pending[s] # {}
    /\ \E s, u \in Streams :
          Oldest(exactSync_.pending[s]) + 1 = Oldest(exactSync_.pending[u])
    /\ signalled = 0

(***************************************************************************)
(* C18.  With either synchronizer, every tuple signalled holds on each     *)
(* stream a later message than the tuple signalled before it, so no        *)
(* message is in two tuples and the stamps of the tuples do not decrease;  *)
(* the messages of the tuple are gone from the pending state.              *)
(***************************************************************************)
C18_OrderedOnce ==
    [][last'.op = "callback" =>
          /\ \A s \in Streams : signal'[s] > signal[s]
          /\ Newest({signal'[s] : s \in Streams}) >= Newest({signal[s] : s \in Streams})
          /\ Oldest({signal'[s] : s \in Streams}) >= Oldest({signal[s] : s \in Streams})
          /\ \A s \in Streams : signal'[s] \notin TheSync'.pending[s]
          /\ last'.in.stampL = signal'["imageRectLeft"]
          /\ last'.in.stampR = signal'["imageRectRight"]]_vars

\* the approximate synchronizer has signalled its second tuple, of messages
\* with different stamps
C18_Witness ==
    /\ last.op = "callback"
    /\ approxSync_.alive
    /\ signalled = 2
    /\ \E s, u \in Streams : signal[s] # signal[u]

(***************************************************************************)
(* C21.  The two callbacks treat the same tuple alike: on the tuple the    *)
(* subscribed callback was called with, under the same gate, parameters    *)
(* and lookup results, the other callback returns with the same outcome    *)
(* (dispatch, or the same failure kind), and when both dispatch their      *)
(* frames have the same stamp, the same baseline and the same encodings of *)
(* the left and the right image.                                           *)
(***************************************************************************)
C21_ModesEquivalent ==
    Called =>
        LET other == IF last.op = "callback" THEN "callbackRGBD" ELSE "callback"
            r == ResultOf(other, last.in)
        IN /\ r.outcome = last.outcome
           /\ (r.processData = {}) <=> (last.processData = {})
           /\ \A f \in last.processData : \A g \in r.processData :
                 /\ f.stamp = g.stamp
                 /\ f.stereoModel.baseline = g.stereoModel.baseline
                 /\ f.imageLeft = g.imageLeft
                 /\ f.imageRight = g.imageRight

====
